---- MODULE Spec2Model ----
(***************************************************************************)
(* Model of the invoice faucet of dcr-tippin (faucet.go): the HTTP handler *)
(* faucetHome, the form handler generateInvoice, the package-level         *)
(* rate-limit clock lastGeneratedInvoiceTime and the homePageContext that   *)
(* every request shares.                                                   *)
(***************************************************************************)
EXTENDS Integers, Sequences, FiniteSets, TLC

(***************************************************************************)
(* Arbitrary-precision naturals.  TLC's integers are 32 bits wide, a       *)
(* float64 mantissa is 53 bits, so the float64 arithmetic of               *)
(* strconv.ParseFloat and of amtDcr * 1e8 is carried out on little-endian  *)
(* sequences of limbs in base 10^4 (the empty sequence is zero).           *)
(***************************************************************************)
Base == 10000

RECURSIVE BigNorm(_)
BigNorm(x) ==
    IF x # <<>> /\ x[Len(x)] = 0 THEN BigNorm(SubSeq(x, 1, Len(x) - 1)) ELSE x

\* x * c + carry, for 0 < c < Base and 0 <= carry < Base
RECURSIVE BigMulAdd(_, _, _)
BigMulAdd(x, c, carry) ==
    IF x = <<>> THEN (IF carry = 0 THEN <<>> ELSE <<carry>>)
    ELSE LET v == x[1] * c + carry
         IN  <<v % Base>> \o BigMulAdd(Tail(x), c, v \div Base)

RECURSIVE BigAddC(_, _, _)
BigAddC(x, y, carry) ==
    IF x = <<>> /\ y = <<>> THEN (IF carry = 0 THEN <<>> ELSE <<carry>>)
    ELSE LET a == IF x = <<>> THEN 0 ELSE x[1]
             b == IF y = <<>> THEN 0 ELSE y[1]
             v == a + b + carry
         IN  <<v % Base>> \o
             BigAddC(IF x = <<>> THEN <<>> ELSE Tail(x),
                     IF y = <<>> THEN <<>> ELSE Tail(y), v \div Base)

BigAdd(x, y) == BigAddC(x, y, 0)

\* -1, 0, 1 as x < y, x = y, x > y (both normalised)
RECURSIVE BigCmpFrom(_, _, _)
BigCmpFrom(x, y, i) ==
    IF i = 0 THEN 0
    ELSE IF x[i] < y[i] THEN -1
    ELSE IF x[i] > y[i] THEN 1
    ELSE BigCmpFrom(x, y, i - 1)

BigCmp(x, y) ==
    IF Len(x) < Len(y) THEN -1
    ELSE IF Len(x) > Len(y) THEN 1
    ELSE BigCmpFrom(x, y, Len(x))

\* quotient and remainder of x by c, for 0 < c < Base
RECURSIVE BigDivFrom(_, _, _, _)
BigDivFrom(x, c, i, rem) ==
    IF i = 0 THEN [q |-> <<>>, r |-> rem]
    ELSE LET cur  == rem * Base + x[i]
             rest == BigDivFrom(x, c, i - 1, cur % c)
         IN  [q |-> rest.q \o <<cur \div c>>, r |-> rest.r]

BigDivSmall(x, c) ==
    LET d == BigDivFrom(x, c, Len(x), 0) IN [q |-> BigNorm(d.q), r |-> d.r]

RECURSIVE BigMul(_, _)
BigMul(x, y) ==
    IF y = <<>> \/ x = <<>> THEN <<>>
    ELSE LET low  == IF y[1] = 0 THEN <<>> ELSE BigMulAdd(x, y[1], 0)
             high == BigMul(x, Tail(y))
         IN  BigAdd(low, IF high = <<>> THEN <<>> ELSE <<0>> \o high)

RECURSIVE BigPow10(_)
BigPow10(n) == IF n = 0 THEN <<1>> ELSE BigMulAdd(BigPow10(n - 1), 10, 0)

RECURSIVE IntPow2(_)
IntPow2(n) == IF n = 0 THEN 1 ELSE 2 * IntPow2(n - 1)

\* the widest shift one limb operation can make: 2^ShiftChunk < Base
ShiftChunk == 13

RECURSIVE BigShl(_, _)
BigShl(x, n) ==
    IF n = 0 THEN x
    ELSE LET c == IF n >= ShiftChunk THEN ShiftChunk ELSE n
         IN  BigShl(BigMulAdd(x, IntPow2(c), 0), n - c)

\* x shifted right by n bits: the quotient, the last bit shifted out (guard)
\* and whether any earlier bit shifted out was set (sticky)
RECURSIVE BigShrFrom(_, _, _, _)
BigShrFrom(x, n, guard, sticky) ==
    IF n = 0 THEN [q |-> x, guard |-> guard, sticky |-> sticky]
    ELSE LET c    == IF n >= ShiftChunk THEN ShiftChunk ELSE n
             d    == BigDivSmall(x, IntPow2(c))
             half == IntPow2(c - 1)
         IN  BigShrFrom(d.q, n - c, d.r \div half,
                        sticky \/ guard = 1 \/ d.r % half # 0)

BigShr(x, n) == BigShrFrom(x, n, 0, FALSE)

BigPow2(n) == BigShl(<<1>>, n)

BigOdd(x) == x # <<>> /\ x[1] % 2 = 1

\* the value of x as an integer; x < 2^31
RECURSIVE BigToInt(_)
BigToInt(x) == IF x = <<>> THEN 0 ELSE x[1] + Base * BigToInt(Tail(x))

\* round to nearest, ties to even, of a shifted-out quotient
RoundNearestEven(s) ==
    IF s.guard = 1 /\ (s.sticky \/ BigOdd(s.q)) THEN BigAdd(s.q, <<1>>) ELSE s.q

(***************************************************************************)
(* float64.  A finite float64 is [neg, mant, exp] with value               *)
(* (-1)^neg * mant * 2^exp, where mant is zero or has exactly MantBits     *)
(* bits.  The amounts of the model stay far from the subnormal and the     *)
(* overflow range, so neither is modelled.                                 *)
(***************************************************************************)
MantBits == 53

FloatZero(neg) == [neg |-> neg, mant |-> <<>>, exp |-> 0]

\* double num until num >= low; exp counts the doublings down
RECURSIVE FloatScaleUp(_, _, _)
FloatScaleUp(num, low, exp) ==
    IF BigCmp(num, low) < 0 THEN FloatScaleUp(BigMulAdd(num, 2, 0), low, exp - 1)
    ELSE [num |-> num, exp |-> exp]

\* the number j of halvings after which num < 2 * low
RECURSIVE FloatScaleDown(_, _, _)
FloatScaleDown(num, low, j) ==
    IF BigCmp(num, BigMulAdd(low, 2, 0)) >= 0
    THEN FloatScaleDown(num, BigMulAdd(low, 2, 0), j + 1)
    ELSE j

\* x divided by 10^k: the quotient and whether the division was inexact
RECURSIVE BigDivPow10(_, _, _)
BigDivPow10(x, k, sticky) ==
    IF k = 0 THEN [q |-> x, sticky |-> sticky]
    ELSE LET d == BigDivSmall(x, 10)
         IN  BigDivPow10(d.q, k - 1, sticky \/ d.r # 0)

\* the float64 nearest to n / 10^k (ties to even): what ParseFloat returns
\* for the decimal with digits n and k digits after the point
FloatFromDecimal(neg, n, k) ==
    IF n = <<>> THEN FloatZero(neg)
    ELSE LET low == BigShl(BigPow10(k), MantBits)
             up  == FloatScaleUp(n, low, 0)
             j   == FloatScaleDown(up.num, low, 0)
             \* 2^MantBits <= up.num / (10^k * 2^j) < 2^(MantBits+1)
             d10 == BigDivPow10(up.num, k, FALSE)
             sh  == BigShrFrom(d10.q, j + 1, 0, d10.sticky)
             m   == RoundNearestEven(sh)
             e   == up.exp + j + 1
         IN  IF BigCmp(m, BigPow2(MantBits)) = 0
             THEN [neg |-> neg, mant |-> BigPow2(MantBits - 1), exp |-> e + 1]
             ELSE [neg |-> neg, mant |-> m, exp |-> e]

\* a * b in float64: the exact product rounded to MantBits bits, ties to even
FloatMul(a, b) ==
    IF a.mant = <<>> \/ b.mant = <<>> THEN FloatZero(a.neg # b.neg)
    ELSE LET p   == BigMul(a.mant, b.mant)
             t   == IF BigCmp(p, BigPow2(2 * MantBits - 1)) >= 0
                    THEN MantBits ELSE MantBits - 1
             m   == RoundNearestEven(BigShr(p, t))
         IN  IF BigCmp(m, BigPow2(MantBits)) = 0
             THEN [neg |-> a.neg # b.neg, mant |-> BigPow2(MantBits - 1),
                   exp |-> a.exp + b.exp + t + 1]
             ELSE [neg |-> a.neg # b.neg, mant |-> m, exp |-> a.exp + b.exp + t]

\* a > b
FloatGreater(a, b) ==
    LET mag(x, y) ==  \* |x| > |y|, both nonzero
            x.exp > y.exp \/ (x.exp = y.exp /\ BigCmp(x.mant, y.mant) > 0)
    IN  IF a.mant = <<>> THEN b.mant # <<>> /\ b.neg
        ELSE IF b.mant = <<>> THEN ~a.neg
        ELSE IF a.neg # b.neg THEN b.neg
        ELSE IF a.neg THEN mag(b, a) ELSE mag(a, b)

\* int64(f): truncation toward zero; |f| < 2^31 in the model
FloatToInt64(f) ==
    LET mag == IF f.mant = <<>> THEN 0
               ELSE IF f.exp >= 0 THEN BigToInt(BigShl(f.mant, f.exp))
               ELSE IF -f.exp > MantBits THEN 0
               ELSE BigToInt(BigShr(f.mant, -f.exp).q)
    IN  IF f.neg THEN -mag ELSE mag

(***************************************************************************)
(* strconv.ParseFloat(amt, 64) on the decimal literals                     *)
(* [+-] digits [ "." digits ].  A string is a sequence of one-character    *)
(* strings.  Go also accepts exponents, hexadecimal literals, underscores, *)
(* "inf" and "nan"; no amount of the model is one of those.                *)
(***************************************************************************)
Digits == <<"0", "1", "2", "3", "4", "5", "6", "7", "8", "9">>

IsDigit(c) == \E i \in 1..Len(Digits) : Digits[i] = c

DigitVal(c) == (CHOOSE i \in 1..Len(Digits) : Digits[i] = c) - 1

\* the digits of s as a natural
RECURSIVE BigFromDigits(_, _)
BigFromDigits(s, acc) ==
    IF s = <<>> THEN acc
    ELSE BigFromDigits(Tail(s), BigMulAdd(acc, 10, DigitVal(Head(s))))

\* the decimal s denotes: [ok, neg, n, k] for (-1)^neg * n / 10^k
ParseDecimal(s) ==
    LET signed == s # <<>> /\ Head(s) \in {"+", "-"}
        neg    == s # <<>> /\ Head(s) = "-"
        body   == IF signed THEN Tail(s) ELSE s
        points == {i \in 1..Len(body) : body[i] = "."}
        pt     == IF points = {} THEN Len(body) + 1
                  ELSE CHOOSE i \in points : \A j \in points : i <= j
        int    == SubSeq(body, 1, pt - 1)
        frac   == SubSeq(body, pt + 1, Len(body))
        ok     == /\ Cardinality(points) <= 1
                  /\ Len(int) + Len(frac) >= 1
                  /\ \A i \in 1..Len(int) : IsDigit(int[i])
                  /\ \A i \in 1..Len(frac) : IsDigit(frac[i])
    IN  IF ok THEN [ok |-> TRUE, neg |-> neg,
                    n |-> BigFromDigits(int \o frac, <<>>), k |-> Len(frac)]
        ELSE [ok |-> FALSE, neg |-> FALSE, n |-> <<>>, k |-> 0]

\* strconv.ParseFloat(s, 64): err, and the float64 when err is FALSE
ParseFloat(s) ==
    LET d == ParseDecimal(s)
    IN  IF d.ok THEN [err |-> FALSE, val |-> FloatFromDecimal(d.neg, d.n, d.k)]
        ELSE [err |-> TRUE, val |-> FloatZero(FALSE)]

(***************************************************************************)
(* The program.  Time is the monotonic clock in whole seconds since the    *)
(* process started.                                                        *)
(***************************************************************************)
\* bounds of the model
NumProcs == 2
MaxRequests == 3
MaxRaceRequests == 2
MaxTicks == 2

\* chanCreationError
NoError == "NoError"
ChanAmountNotNumber == "ChanAmountNotNumber"
ErrorGeneratingInvoice == "ErrorGeneratingInvoice"
InvoiceTimeNotElapsed == "InvoiceTimeNotElapsed"
InvoiceAmountTooHigh == "InvoiceAmountTooHigh"

\* GenerateInvoiceTimeout, in seconds
GenerateInvoiceTimeout == 60

GenerateInvoiceAction == "generateinvoice"

\* the zero time.Time, the initial value of lastGeneratedInvoiceTime: so far
\* in the past that time.Since saturates above every timeout
ZeroTime == -1000000000

\* the invoice ceiling: the constant 0.2 as a float64
MaxInvoiceAmount == FloatFromDecimal(FALSE, <<2>>, 1)

\* the constant 1e8 as a float64
AtomsPerCoin == FloatFromDecimal(FALSE, BigPow10(8), 0)

\* the handler goroutines net/http runs side by side
Procs == 1..NumProcs

\* the clock advances in steps of half a cooldown
TickSeconds == GenerateInvoiceTimeout \div 2

\* submitted forms: the amt and the description field
Forms ==
    { << <<"a", "b", "c">>, "tip" >>,
      << <<"0", ".", "1">>, "tip" >>,
      << <<"0", ".", "2">>, "beer" >>,
      << <<"0", ".", "5">>, "tip" >>,
      << <<"0", ".", "0", "0", "9">>, "beer" >>,
      << <<"-", "0", ".", "1">>, "tip" >> }

\* the requests the router hands to faucetHome (Methods("POST", "GET")):
\* action is the list of the URL's action query values
Requests ==
    {[Method |-> "GET", action |-> <<>>, amt |-> <<>>, description |-> "",
      malformed |-> FALSE]}
    \cup
    {[Method |-> "POST", action |-> a, amt |-> <<>>, description |-> "",
      malformed |-> FALSE] : a \in {<<>>, <<"openchannel">>}}
    \cup
    {[Method |-> "POST", action |-> <<GenerateInvoiceAction>>, amt |-> f[1],
      description |-> f[2], malformed |-> FALSE] : f \in Forms}
    \cup
    {[Method |-> "POST", action |-> <<GenerateInvoiceAction>>, amt |-> <<>>,
      description |-> "", malformed |-> TRUE]}

NoRequest ==
    [Method |-> "", action |-> <<>>, amt |-> <<>>, description |-> "",
     malformed |-> FALSE]

NoInvoiceReq == [set |-> FALSE, CreationDate |-> 0, Value |-> 0, Memo |-> ""]

NoInvoice ==
    [called |-> FALSE, err |-> FALSE, PaymentRequest |-> <<>>, AddIndex |-> 0]

\* arrived: the time of the read of line 341; lastSeen: the last attempt
\* that read saw; checkedAt: the time of the rate check
NoHist == [arrived |-> 0, lastSeen |-> ZeroTime, checkedAt |-> ZeroTime]

\* no rate check made yet
NoAttempts == [admittedAt |-> ZeroTime, limited |-> 0]

\* the remote node before any call
NoCalls ==
    [calls |-> 0, invoices |-> 0, lastCall |-> ZeroTime, prevCall |-> ZeroTime]

VARIABLES
    now,                        \* the clock
    ticks,                      \* clock steps taken
    lastGeneratedInvoiceTime,   \* package variable: the last attempt
    homePageContext,            \* the one homePageContext every request uses
    lnd,                        \* the remote node: the AddInvoice calls it
                                \* received, the invoices it added, the
                                \* times of the last call and the one before
    nreq,                       \* requests accepted so far
    pc,                         \* where each goroutine stands
    r,                          \* its *http.Request
    parsed,                     \* whether r.Form has been populated
    elapsed,                    \* its local elapsed
    invoiceReq,                 \* its local invoiceReq
    invoice,                    \* the reply of its AddInvoice call
    w,                          \* what it wrote to its http.ResponseWriter
    hist,                       \* history of its request, for the properties
    attempts                    \* history of the rate checks: the time of the
                                \* last one passed, and how many did not pass

vars == <<now, ticks, lastGeneratedInvoiceTime, homePageContext, lnd, nreq,
          pc, r, parsed, elapsed, invoiceReq, invoice, w, hist, attempts>>

shared == <<lastGeneratedInvoiceTime, homePageContext, lnd>>
clock == <<now, ticks>>

\* time.Since(t)
Since(t) == now - t

\* homeState.FormFields[k] = v
MapSet(m, k, v) == [x \in DOMAIN m \cup {k} |-> IF x = k THEN v ELSE m[x]]

\* homeTemplate.Execute(w, homeState): the page shows the context as it is
Execute(ctx) == [kind |-> "page", ctx |-> ctx]

\* the payment request the remote node returns for its invoice number i
PaymentRequestOf(i) == <<"lndcr", i>>

\* the cooldown still running at its last second
RateLimitedInclusive(e) == e <= GenerateInvoiceTimeout

\* the timeout taken for minutes
RateLimitedWrongUnit(e) == e < GenerateInvoiceTimeout \div 60

\* elapsed < GenerateInvoiceTimeout
RateLimited(e) == e < GenerateInvoiceTimeout

\* the comparison turned round
AmountTooHighSwapped(amtDcr) == FloatGreater(MaxInvoiceAmount, amtDcr)

\* amtDcr > 0.2
AmountTooHigh(amtDcr) == FloatGreater(amtDcr, MaxInvoiceAmount)

\* int64(amtDcr * 1e8)
AmtAtoms(amtDcr) == FloatToInt64(FloatMul(amtDcr, AtomsPerCoin))

\* lines 360-373 on the form value amt: whether ParseFloat fails, whether
\* the amount is above the ceiling, and amtAtoms when neither
CheckAmount(amt) ==
    LET f == ParseFloat(amt)
    IN  IF f.err THEN [err |-> TRUE, tooHigh |-> FALSE, amtAtoms |-> 0]
        ELSE IF AmountTooHigh(f.val)
        THEN [err |-> FALSE, tooHigh |-> TRUE, amtAtoms |-> 0]
        ELSE [err |-> FALSE, tooHigh |-> FALSE, amtAtoms |-> AmtAtoms(f.val)]

\* CheckAmount of every amt a request of the model carries, computed once
CheckedAmounts == [a \in {req.amt : req \in Requests} |-> CheckAmount(a)]

\* the attempt never recorded
RecordAttemptNever(e, last, t) == last

\* every submission recorded, the rate-limited ones too
RecordAttemptAlways(e, last, t) == t

\* lastGeneratedInvoiceTime after the rate check of a request that saw
\* elapsed e at time t
RecordAttempt(e, last, t) == IF RateLimited(e) THEN last ELSE t

Init ==
    /\ now = 0
    /\ ticks = 0
    /\ lastGeneratedInvoiceTime = ZeroTime
    /\ homePageContext =
           [SubmissionError |-> NoError, FormFields |-> <<>>,
            InvoicePaymentRequest |-> <<>>]
    /\ lnd = NoCalls
    /\ nreq = 0
    /\ pc = [p \in Procs |-> "idle"]
    /\ r = [p \in Procs |-> NoRequest]
    /\ parsed = [p \in Procs |-> FALSE]
    /\ elapsed = [p \in Procs |-> 0]
    /\ invoiceReq = [p \in Procs |-> NoInvoiceReq]
    /\ invoice = [p \in Procs |-> NoInvoice]
    /\ w = [p \in Procs |-> [kind |-> "none"]]
    /\ hist = [p \in Procs |-> NoHist]
    /\ attempts = NoAttempts

\* the clock advances.  A clock step is half a minute: it is taken between
\* requests and while a goroutine waits for the remote node's reply, never
\* inside the straight-line code between two waits, which runs in far less
Tick ==
    /\ ticks < MaxTicks
    /\ \A p \in Procs : pc[p] \in {"idle", "reply", "done"}
    /\ now' = now + TickSeconds
    /\ ticks' = ticks + 1
    /\ UNCHANGED <<shared, nreq, pc, r, parsed, elapsed, invoiceReq, invoice,
                   w, hist, attempts>>

\* faucetHome: a request arrives and is dispatched on its method and action
FaucetHome(p, req) ==
    /\ pc[p] = "idle"
    /\ nreq' = nreq + 1
    /\ r' = [r EXCEPT ![p] = req]
    /\ hist' = [hist EXCEPT ![p] = NoHist]
    /\ IF req.Method = "GET"
       THEN /\ w' = [w EXCEPT ![p] = Execute(homePageContext)]
            /\ pc' = [pc EXCEPT ![p] = "done"]
       ELSE IF req.action = <<>>
       THEN \* action[0] of an empty list: the handler panics
            /\ w' = [w EXCEPT ![p] = [kind |-> "panic"]]
            /\ pc' = [pc EXCEPT ![p] = "done"]
       ELSE IF req.action[1] = GenerateInvoiceAction
       THEN /\ w' = [w EXCEPT ![p] = [kind |-> "none"]]
            /\ pc' = [pc EXCEPT ![p] = "generateInvoice"]
       ELSE \* no branch for any other action: nothing is written
            /\ w' = [w EXCEPT ![p] = [kind |-> "none"]]
            /\ pc' = [pc EXCEPT ![p] = "done"]
    /\ UNCHANGED <<clock, shared, parsed, elapsed, invoiceReq, invoice,
                   attempts>>

\* generateInvoice, lines 341-346: read the clock and the last attempt,
\* read the form, store the form values in the shared context
ReadForm(p) ==
    /\ pc[p] = "generateInvoice"
    /\ elapsed' = [elapsed EXCEPT ![p] = Since(lastGeneratedInvoiceTime)]
    /\ parsed' = [parsed EXCEPT ![p] = TRUE]
    /\ homePageContext' =
           [homePageContext EXCEPT !.FormFields =
               MapSet(MapSet(@, "Amt", r[p].amt),
                      "Description", r[p].description)]
    /\ hist' = [hist EXCEPT ![p].arrived = now,
                            ![p].lastSeen = lastGeneratedInvoiceTime]
    /\ pc' = [pc EXCEPT ![p] = "rateCheck"]
    /\ UNCHANGED <<clock, lastGeneratedInvoiceTime, lnd, nreq, r,
                   invoiceReq, invoice, w, attempts>>

\* lines 349-354: the rate check, and the attempt recorded when it passes
RateCheck(p) ==
    /\ pc[p] = "rateCheck"
    /\ lastGeneratedInvoiceTime' =
           RecordAttempt(elapsed[p], lastGeneratedInvoiceTime, now)
    /\ IF RateLimited(elapsed[p])
       THEN /\ homePageContext' =
                   [homePageContext EXCEPT
                       !.SubmissionError = InvoiceTimeNotElapsed]
            /\ pc' = [pc EXCEPT ![p] = "execute"]
       ELSE /\ pc' = [pc EXCEPT ![p] = "validate"]
            /\ UNCHANGED homePageContext
    /\ hist' = [hist EXCEPT ![p].checkedAt = now]
    /\ attempts' = IF RateLimited(elapsed[p])
                   THEN [attempts EXCEPT !.limited = @ + 1]
                   ELSE [attempts EXCEPT !.admittedAt = now]
    /\ UNCHANGED <<clock, lnd, nreq, r, parsed, elapsed, invoiceReq,
                   invoice, w>>

\* r.ParseForm(): the form is parsed once; a later call returns nil
ParseFormErr(p) == ~parsed[p] /\ r[p].malformed

\* lines 355-380: ParseForm, ParseFloat, the ceiling, the request built
Validate(p) ==
    /\ pc[p] = "validate"
    /\ LET c == CheckedAmounts[r[p].amt]
       IN  IF ParseFormErr(p)
           THEN /\ w' = [w EXCEPT ![p] = [kind |-> "error500"]]
                /\ pc' = [pc EXCEPT ![p] = "done"]
                /\ UNCHANGED <<homePageContext, invoiceReq>>
           ELSE IF c.err
           THEN /\ homePageContext' =
                       [homePageContext EXCEPT
                           !.SubmissionError = ChanAmountNotNumber]
                /\ pc' = [pc EXCEPT ![p] = "execute"]
                /\ UNCHANGED <<w, invoiceReq>>
           ELSE IF c.tooHigh
           THEN /\ homePageContext' =
                       [homePageContext EXCEPT
                           !.SubmissionError = InvoiceAmountTooHigh]
                /\ pc' = [pc EXCEPT ![p] = "execute"]
                /\ UNCHANGED <<w, invoiceReq>>
           ELSE /\ invoiceReq' =
                       [invoiceReq EXCEPT ![p] =
                           [set |-> TRUE, CreationDate |-> now,
                            Value |-> c.amtAtoms,
                            Memo |-> r[p].description]]
                /\ pc' = [pc EXCEPT ![p] = "addInvoice"]
                /\ UNCHANGED <<w, homePageContext>>
    /\ UNCHANGED <<clock, lastGeneratedInvoiceTime, lnd, nreq, r, parsed,
                   elapsed, invoice, hist, attempts>>

\* line 381: l.lnd.AddInvoice; the remote node fails or adds the invoice
AddInvoice(p, ok) ==
    /\ pc[p] = "addInvoice"
    /\ LET index == lnd.invoices + 1
       IN  /\ lnd' = [calls |-> lnd.calls + 1,
                      invoices |-> IF ok THEN index ELSE lnd.invoices,
                      lastCall |-> now, prevCall |-> lnd.lastCall]
           /\ invoice' = [invoice EXCEPT ![p] =
                   IF ok
                   THEN [called |-> TRUE, err |-> FALSE,
                         PaymentRequest |-> PaymentRequestOf(index),
                         AddIndex |-> index]
                   ELSE [NoInvoice EXCEPT !.called = TRUE, !.err = TRUE]]
    /\ pc' = [pc EXCEPT ![p] = "reply"]
    /\ UNCHANGED <<clock, lastGeneratedInvoiceTime, homePageContext, nreq, r,
                   parsed, elapsed, invoiceReq, w, hist, attempts>>

\* lines 382-392: the reply handled
HandleReply(p) ==
    /\ pc[p] = "reply"
    /\ homePageContext' =
           IF invoice[p].err
           THEN [homePageContext EXCEPT
                    !.SubmissionError = ErrorGeneratingInvoice]
           ELSE [homePageContext EXCEPT
                    !.InvoicePaymentRequest = invoice[p].PaymentRequest]
    /\ pc' = [pc EXCEPT ![p] = "execute"]
    /\ UNCHANGED <<clock, lastGeneratedInvoiceTime, lnd, nreq, r, parsed,
                   elapsed, invoiceReq, invoice, w, hist, attempts>>

\* lines 351, 363, 370, 385, 394: the page rendered from the shared context
Render(p) ==
    /\ pc[p] = "execute"
    /\ w' = [w EXCEPT ![p] = Execute(homePageContext)]
    /\ pc' = [pc EXCEPT ![p] = "done"]
    /\ UNCHANGED <<clock, shared, nreq, r, parsed, elapsed, invoiceReq,
                   invoice, hist, attempts>>

\* the handler returns; the goroutine is free for the next request
Return(p) ==
    /\ pc[p] = "done"
    /\ pc' = [pc EXCEPT ![p] = "idle"]
    /\ r' = [r EXCEPT ![p] = NoRequest]
    /\ parsed' = [parsed EXCEPT ![p] = FALSE]
    /\ elapsed' = [elapsed EXCEPT ![p] = 0]
    /\ invoiceReq' = [invoiceReq EXCEPT ![p] = NoInvoiceReq]
    /\ invoice' = [invoice EXCEPT ![p] = NoInvoice]
    /\ w' = [w EXCEPT ![p] = [kind |-> "none"]]
    /\ hist' = [hist EXCEPT ![p] = NoHist]
    /\ UNCHANGED <<clock, shared, nreq, attempts>>

Step(p) ==
    \/ ReadForm(p)
    \/ RateCheck(p)
    \/ Validate(p)
    \/ \E ok \in BOOLEAN : AddInvoice(p, ok)
    \/ HandleReply(p)
    \/ Render(p)
    \/ Return(p)

\* net/http serves every request on a goroutine of its own
Next ==
    \/ Tick
    \/ \E p \in Procs, req \in Requests :
          nreq < MaxRaceRequests /\ FaucetHome(p, req)
    \/ \E p \in Procs : Step(p)

Spec == Init /\ [][Next]_vars

\* one request at a time: a request arrives when no other is being handled
SeqNext ==
    \/ Tick
    \/ \E req \in Requests :
          /\ nreq < MaxRequests
          /\ \A q \in Procs : pc[q] = "idle"
          /\ FaucetHome(1, req)
    \/ \E p \in Procs : Step(p)

SeqSpec == Init /\ [][SeqNext]_vars

(***************************************************************************)
(* Properties.                                                             *)
(***************************************************************************)
\* p holds a form submission
Submitted(p) == r[p].Method = "POST"

\* p holds a submission that faucetHome passed to generateInvoice
InGenerate(p) ==
    /\ r[p].Method = "POST"
    /\ r[p].action # <<>>
    /\ r[p].action[1] = GenerateInvoiceAction

\* the handler of p has returned
Finished(p) == pc[p] = "done"

\* p is past line 341
HasRead(p) == InGenerate(p) /\ pc[p] # "generateInvoice"

\* the time between the last recorded attempt and the arrival of p
ArrivedAfter(p) == hist[p].arrived - hist[p].lastSeen

\* p is past the rate check and arrived when the cooldown had elapsed
Admitted(p) ==
    /\ HasRead(p)
    /\ pc[p] # "rateCheck"
    /\ ArrivedAfter(p) >= GenerateInvoiceTimeout

\* p has rendered the page
Rendered(p) == w[p].kind = "page"

\* floor(n * 10^8 / 10^k), for a decimal d = n / 10^k: the amount in atoms,
\* computed exactly
ExactAtoms(d) == BigToInt(BigDivPow10(BigMul(d.n, BigPow10(8)), d.k, FALSE).q)

\* C1: no two AddInvoice calls reach the remote node less than the cooldown
\* of 60 seconds apart, whatever the interleaving of the requests
C1_CallsSpacedByCooldown ==
    lnd.calls >= 2 => lnd.lastCall - lnd.prevCall >= GenerateInvoiceTimeout

\* C2: the page rendered for a submission shows a payment request or an
\* error kind, never both: with an error kind the payment request is empty
C2_PaymentRequestOrError ==
    \A p \in Procs :
        Finished(p) /\ Submitted(p) /\ Rendered(p)
            /\ w[p].ctx.SubmissionError # NoError
        => w[p].ctx.InvoicePaymentRequest = <<>>

\* C3: a submission whose AddInvoice call succeeded renders the payment
\* request of that call with the error kind NoError
C3_SuccessRendersNoError ==
    \A p \in Procs :
        Finished(p) /\ invoice[p].called /\ ~invoice[p].err
        => /\ Rendered(p)
           /\ w[p].ctx.InvoicePaymentRequest = invoice[p].PaymentRequest
           /\ w[p].ctx.SubmissionError = NoError

\* C4: a submission that arrives less than 60 seconds after the last
\* recorded attempt is answered InvoiceTimeNotElapsed whatever its amount:
\* its rate check sets that error kind and goes straight to rendering, it
\* never builds an invoice request or calls the remote node, and no step
\* of it changes lastGeneratedInvoiceTime
C4_RateLimitedWhateverAmount ==
    /\ [](\A p \in Procs :
            HasRead(p) /\ ArrivedAfter(p) < GenerateInvoiceTimeout
            => /\ pc[p] \in {"rateCheck", "execute", "done"}
               /\ ~invoiceReq[p].set
               /\ ~invoice[p].called)
    /\ [][\A p \in Procs :
            HasRead(p) /\ ArrivedAfter(p) < GenerateInvoiceTimeout
                /\ pc'[p] # pc[p]
            => /\ lastGeneratedInvoiceTime' = lastGeneratedInvoiceTime
               /\ lnd' = lnd
               /\ pc[p] = "rateCheck"
                  => homePageContext'.SubmissionError = InvoiceTimeNotElapsed]_vars

\* a submission of the amount 0.5, rate-limited half a minute after an
\* attempt that reached the remote node
C4_Witness ==
    \E p \in Procs :
        /\ Finished(p) /\ InGenerate(p) /\ Rendered(p)
        /\ ArrivedAfter(p) = TickSeconds
        /\ r[p].amt = <<"0", ".", "5">>
        /\ lnd.calls = 1

\* C5: the rate check of a submission that arrives when the cooldown has
\* elapsed sets lastGeneratedInvoiceTime to the current time, and no later
\* step of the submission changes it, whichever step fails; a failed remote
\* call sets ErrorGeneratingInvoice; and a submission that arrives within 60
\* seconds of the check reads an elapsed time below the cooldown
C5_AttemptRecorded ==
    /\ [](\A p \in Procs :
            Admitted(p) => lastGeneratedInvoiceTime >= hist[p].checkedAt)
    /\ [][\A p \in Procs :
            /\ HasRead(p) /\ pc[p] = "rateCheck" /\ pc'[p] # pc[p]
                   /\ ArrivedAfter(p) >= GenerateInvoiceTimeout
               => lastGeneratedInvoiceTime' = now /\ pc'[p] = "validate"
            /\ Admitted(p) /\ pc'[p] # pc[p]
               => lastGeneratedInvoiceTime' = lastGeneratedInvoiceTime
            /\ Admitted(p) /\ pc[p] = "reply" /\ invoice[p].err
                   /\ pc'[p] # pc[p]
               => homePageContext'.SubmissionError = ErrorGeneratingInvoice
            /\ Admitted(p) /\ now - hist[p].checkedAt < GenerateInvoiceTimeout
               => \A q \in Procs :
                     pc[q] = "generateInvoice" /\ pc'[q] # pc[q]
                     => elapsed'[q] < GenerateInvoiceTimeout]_vars

\* an admitted submission whose remote call failed half a minute ago, and
\* a second submission rate-limited since
C5_Witness ==
    \E p, q \in Procs :
        /\ Finished(p) /\ Admitted(p)
        /\ invoice[p].called /\ invoice[p].err
        /\ now = hist[p].checkedAt + TickSeconds
        /\ HasRead(q) /\ hist[q].arrived = now /\ pc[q] = "execute"
        /\ hist[q].lastSeen = hist[p].checkedAt
        /\ homePageContext.SubmissionError = InvoiceTimeNotElapsed

\* strconv.ParseFloat of every amt a request of the model carries
AmountFloats == [a \in {req.amt : req \in Requests} |-> ParseFloat(a)]

\* the amt of p does not parse
NotNumber(p) == AmountFloats[r[p].amt].err

\* the amt of p parses to a float64 greater than the float64 0.2
TooHigh(p) ==
    /\ ~AmountFloats[r[p].amt].err
    /\ FloatGreater(AmountFloats[r[p].amt].val, MaxInvoiceAmount)

\* C6: past the rate check, an invoice request is built and the remote call
\* made only for an amount that parses and is not greater than 0.2 (as
\* float64 values, the way the code compares them): an amount that does not
\* parse sets ChanAmountNotNumber, an amount greater than 0.2 sets
\* InvoiceAmountTooHigh, and both go to rendering without a remote call
C6_AmountChecked ==
    /\ [](\A p \in Procs :
            invoiceReq[p].set \/ invoice[p].called
            => ~NotNumber(p) /\ ~TooHigh(p))
    /\ [][\A p \in Procs :
            Admitted(p) /\ pc[p] = "validate" /\ pc'[p] # pc[p]
                /\ (NotNumber(p) \/ TooHigh(p))
            => /\ homePageContext'.SubmissionError =
                      IF NotNumber(p) THEN ChanAmountNotNumber
                      ELSE InvoiceAmountTooHigh
               /\ pc'[p] = "execute"
               /\ lnd' = lnd]_vars

\* an admitted submission of the amount 0.5 rendered, a minute after an
\* earlier remote call
C6_Witness ==
    \E p \in Procs :
        /\ Finished(p) /\ Admitted(p) /\ Rendered(p)
        /\ r[p].amt = <<"0", ".", "5">>
        /\ lnd.calls = 1 /\ ~invoice[p].called

\* C7: every form submission ends with the page rendered, showing the
\* submitted values
C7_EverySubmissionRendered ==
    \A p \in Procs :
        Finished(p) /\ Submitted(p)
        => /\ Rendered(p)
           /\ DOMAIN w[p].ctx.FormFields = {"Amt", "Description"}
           /\ w[p].ctx.FormFields["Amt"] = r[p].amt
           /\ w[p].ctx.FormFields["Description"] = r[p].description

\* C8: the page rendered for a submission shows that submission's own amt
\* and description, also when submissions are handled side by side
C8_OwnFormValues ==
    \A p \in Procs :
        Finished(p) /\ InGenerate(p) /\ Rendered(p)
        => /\ w[p].ctx.FormFields["Amt"] = r[p].amt
           /\ w[p].ctx.FormFields["Description"] = r[p].description

\* C9: no AddInvoice call carries a negative Value
C9_NoNegativeValue ==
    \A p \in Procs : invoice[p].called => invoiceReq[p].Value >= 0

\* C10: the Value of the invoice request of a non-negative amount a is
\* exactly floor(a * 10^8), and its Memo is the submitted description
C10_ExactAtoms ==
    \A p \in Procs :
        LET d == ParseDecimal(r[p].amt)
        IN  invoiceReq[p].set /\ d.ok /\ ~d.neg
            => /\ invoiceReq[p].Value = ExactAtoms(d)
               /\ invoiceReq[p].Memo = r[p].description

\* C11: lastGeneratedInvoiceTime starts at the zero time, so a submission
\* that reads it before any attempt was recorded passes the rate check; it
\* changes only in the rate check of a submission that read an elapsed time
\* of at least the cooldown, which sets it to the current time: no GET, no
\* rate-limited submission and no other step changes it, and it never goes
\* back to the zero time or to an earlier time
C11_WrittenOnlyWhenAdmitted ==
    /\ lastGeneratedInvoiceTime = ZeroTime
    /\ [][\A p \in Procs :
            HasRead(p) /\ pc[p] = "rateCheck" /\ pc'[p] # pc[p]
                /\ hist[p].lastSeen = ZeroTime
            => pc'[p] = "validate"]_vars
    /\ [][lastGeneratedInvoiceTime' # lastGeneratedInvoiceTime
            => /\ \E p \in Procs :
                     /\ InGenerate(p) /\ pc[p] = "rateCheck"
                     /\ pc'[p] = "validate"
                     /\ elapsed[p] >= GenerateInvoiceTimeout
               /\ lastGeneratedInvoiceTime' = now
               /\ lastGeneratedInvoiceTime' > lastGeneratedInvoiceTime]_vars

\* a rate-limited submission has rendered its page half a minute after the
\* recorded attempt, which stands as the first submission wrote it
C11_Witness ==
    \E p \in Procs :
        /\ Finished(p) /\ InGenerate(p) /\ Rendered(p)
        /\ hist[p].lastSeen = 0
        /\ hist[p].arrived = TickSeconds
        /\ lastGeneratedInvoiceTime = 0

\* C12: when requests are handled one at a time, a rate check that does not
\* pass leaves the recorded time alone, so lastGeneratedInvoiceTime is always
\* the time of the most recent rate check passed, however many did not pass
\* since; and a submission that arrives at least 60 seconds after that time
\* passes the rate check and is recorded in its turn
C12_LimitedNeverPostpones ==
    /\ [](attempts.admittedAt = lastGeneratedInvoiceTime)
    /\ [][attempts'.limited # attempts.limited
            => /\ lastGeneratedInvoiceTime' = lastGeneratedInvoiceTime
               /\ attempts'.admittedAt = attempts.admittedAt]_vars
    /\ [][\A p \in Procs :
            InGenerate(p) /\ pc[p] = "rateCheck" /\ pc'[p] # pc[p]
                /\ hist[p].arrived - attempts.admittedAt >= GenerateInvoiceTimeout
            => /\ pc'[p] = "validate"
               /\ lastGeneratedInvoiceTime' = now]_vars

\* a submission admitted exactly 60 seconds after the admitted attempt
\* before it, with a rate-limited submission made in between
C12_Witness ==
    \E p \in Procs :
        /\ Admitted(p)
        /\ hist[p].lastSeen = 0
        /\ hist[p].arrived = GenerateInvoiceTimeout
        /\ attempts.limited >= 1
        /\ attempts.admittedAt = GenerateInvoiceTimeout
====
